---- MODULE Spec2Model ----
(***************************************************************************)
(* Engagement state machine of the Justitia marketplace: the cases,        *)
(* quotes and payments tables, the tRPC handlers that write them           *)
(* (cases.create, cases.updateStatus, quotes.submit, quotes.withdraw,      *)
(* payments.createIntent) and the Stripe webhook route.                    *)
(*                                                                         *)
(* Every handler is split at its awaits: one action per database or        *)
(* provider call, the continuation of a request between two calls being a  *)
(* record in the bag inflight.  The webhook's db.transaction is one        *)
(* action: its four UPDATEs commit together or not at all, and under       *)
(* PostgreSQL's row locks every outcome of two overlapping transactions is *)
(* the outcome of running them one after the other.                        *)
(***************************************************************************)
EXTENDS Integers, FiniteSets, Bags, TLC

\* ---------------------------------------------------------------- bounds
MaxCases == 1
MaxQuotes == 2
MaxIntents == 2
MaxInflight == 2
\* the tables handed to the webhook handler on its own
MaxRefCases == 2
MaxRefQuotes == 3
\* the uploads made to POST /api/upload
MaxFiles == 2

\* the users, by role: every handler answers FORBIDDEN to a caller of the
\* other role before its first database call
Clients == {"c1", "c2"}
\* the clients who post cases; the others only call in on cases of theirs
Owners == {"c1"}
Lawyers == {"l1", "l2"}
\* users whose role column holds neither 'client' nor 'lawyer': the files
\* router casts session.user.role to 'client' | 'lawyer' without a check
Others == {"x1"}
Users == Clients \cup Lawyers \cup Others
RoleOf(u) == IF u \in Clients THEN "client" ELSE IF u \in Lawyers THEN "lawyer" ELSE "none"

\* a null text column (quotes.note), an input field left out
NoNote == {}
\* what lawyers send to quotes.submit: amount in thousandths of the currency
\* unit (a z.number()), expectedDays, and the optional note as the set of at
\* most one string
SubmitInputs ==
  { [amount |-> 100000, expectedDays |-> 7, note |-> {"terms"}],
    [amount |-> 200005, expectedDays |-> 14, note |-> {""}] }

CaseIds == 1..MaxCases
RefCases == 1..MaxRefCases
RefQuotes == 1..MaxRefQuotes
CaseStatuses == {"open", "engaged", "closed", "cancelled"}
QuoteStatuses == {"proposed", "accepted", "rejected"}
PaymentStatuses == {"pending", "succeeded", "failed"}
QuoteIds == 1..MaxQuotes
IntentIds == 1..MaxIntents

\* a null uuid column (cases.accepted_quote_id), an empty lookup result
NoQuote == 0

VARIABLES
  cases,      \* cases table: id -> [clientId, status, acceptedQuoteId]
  quotes,     \* quotes table: id -> [caseId, lawyerId, amount (in hundredths),
              \*                      expectedDays, note, status]
  payments,   \* payments table, keyed by stripePaymentIntentId
  intents,    \* the provider's payment intents: id -> metadata
  quoteSeq,   \* number of quote ids handed out so far (ids are never reused)
  inflight,   \* bag of requests suspended at an await
  reply,      \* the last event POST /webhooks/stripe handled, and its answer
  files,      \* files table: storageKey -> caseId
  objects     \* the storage bucket: storageKey -> the case the key names

vars == <<cases, quotes, payments, intents, quoteSeq, inflight, reply, files, objects>>

\* ------------------------------------------------------------ helpers
\* f without the rows in S
Without(f, S) == [x \in DOMAIN f \ S |-> f[x]]

Suspend(r) == inflight' = inflight (+) SetToBag({r})
Resume(r, s) == inflight' = (inflight (-) SetToBag({r})) (+) SetToBag({s})
Finish(r) == inflight' = inflight (-) SetToBag({r})
CanStart == BagCardinality(inflight) < MaxInflight
Waiting == BagToSet(inflight)

\* an audit write without its catch: a failed insert is thrown on
createAuditLogRethrows(insertFails) == IF insertFails THEN "threw" ELSE "returned"

\* createAuditLog: the INSERT INTO audit_logs is in a try whose catch logs
\* the error and throws nothing
createAuditLog(insertFails) == "returned"

\* the handlers that await createAuditLog after their work is done, and what
\* each answers then: a throw would leave quotes.submit, quotes.withdraw and
\* cases.updateStatus as tRPC's INTERNAL_SERVER_ERROR, would be turned into
\* one by the catch of payments.createIntent, and into FORBIDDEN by the
\* catch of files.getSignedUrl
AuditedHandlers == {"quotes.submit", "quotes.withdraw", "cases.updateStatus",
                    "payments.createIntent", "files.getSignedUrl"}
HandlerResult(handler, insertFails) ==
  IF createAuditLog(insertFails) = "returned" THEN "ok"
  ELSE IF handler = "files.getSignedUrl" THEN "FORBIDDEN"
  ELSE "INTERNAL_SERVER_ERROR"

\* ON DELETE CASCADE of payments.quote_id: deleting quotes Q deletes their payments
CascadePayments(p, Q) == Without(p, {i \in DOMAIN p : p[i].quoteId \in Q})

\* ------------------------------------------------------------ cases.create
CaseCreate(client) ==
  /\ Cardinality(DOMAIN cases) < MaxCases
  /\ LET id == Cardinality(DOMAIN cases) + 1 IN
       cases' = cases @@ (id :> [clientId |-> client, status |-> "open",
                                 acceptedQuoteId |-> NoQuote])
  /\ UNCHANGED <<quotes, payments, intents, quoteSeq, inflight, reply,
                 files, objects>>

\* ------------------------------------------------------ cases.updateStatus
\* ownership lookup: SELECT ... WHERE id = caseId AND client_id = user
UpdateStatusCheck(cs, c, client) ==
  IF c \in DOMAIN cs /\ cs[c].clientId = client THEN "ok" ELSE "NOT_FOUND"

UpdateStatusRead(client, c, status) ==
  /\ CanStart
  /\ IF UpdateStatusCheck(cases, c, client) = "ok"
       THEN Suspend([op |-> "updateStatus", pc |-> "update", caseId |-> c,
                     status |-> status])
       ELSE UNCHANGED inflight
  /\ UNCHANGED <<cases, quotes, payments, intents, quoteSeq, reply, files,
                 objects>>

\* 'cancelled' taken for putting the case back on the marketplace
SetCaseStatusReopen(cs, c, status) ==
  [cs EXCEPT ![c].status = IF status = "cancelled" THEN "open" ELSE status]

SetCaseStatus(cs, c, status) ==
  [cs EXCEPT ![c].status = status]

\* UPDATE cases SET status = input.status WHERE id = caseId
UpdateStatusWrite(r) ==
  /\ r \in Waiting /\ r.op = "updateStatus"
  /\ cases' = SetCaseStatus(cases, r.caseId, r.status)
  /\ Finish(r)
  /\ UNCHANGED <<quotes, payments, intents, quoteSeq, reply, files, objects>>

\* ------------------------------------------------------------ quotes.submit
\* the quotes a request may still insert are counted against MaxQuotes
PendingSubmits == BagCardinality([r \in {x \in Waiting : x.op = "submit"} |-> inflight[r]])

\* a check that takes a case in any status
SubmitCheckAnyStatus(cs, c) ==
  IF c \notin DOMAIN cs THEN "NOT_FOUND" ELSE "ok"

\* SELECT the case: NOT_FOUND if absent, BAD_REQUEST unless open
SubmitCheck(cs, c) ==
  IF c \notin DOMAIN cs THEN "NOT_FOUND"
  ELSE IF cs[c].status # "open" THEN "BAD_REQUEST"
  ELSE "ok"

SubmitReadCase(lawyer, c, input) ==
  /\ CanStart
  /\ quoteSeq + PendingSubmits < MaxQuotes
  /\ IF SubmitCheck(cases, c) = "ok"
       THEN Suspend([op |-> "submit", pc |-> "lookup", userId |-> lawyer,
                     caseId |-> c, input |-> input, existing |-> NoQuote])
       ELSE UNCHANGED inflight
  /\ UNCHANGED <<cases, quotes, payments, intents, quoteSeq, reply, files,
                 objects>>

\* the 'proposed' quotes of a lawyer on a case
ProposedBy(qs, c, lawyer) ==
  {q \in DOMAIN qs : /\ qs[q].caseId = c
                     /\ qs[q].lawyerId = lawyer
                     /\ qs[q].status = "proposed"}

\* SELECT ... WHERE case_id, lawyer_id, status = 'proposed' LIMIT 1
SubmitLookup(r) ==
  /\ r \in Waiting /\ r.op = "submit" /\ r.pc = "lookup"
  /\ LET found == ProposedBy(quotes, r.caseId, r.userId) IN
       \E q \in (IF found = {} THEN {NoQuote} ELSE found) :
         Resume(r, [r EXCEPT !.pc = "write", !.existing = q])
  /\ UNCHANGED <<cases, quotes, payments, intents, quoteSeq, reply, files,
                 objects>>

\* input.amount.toString() written to a numeric(10, 2) column: PostgreSQL
\* rounds the decimal to two places, half away from zero (amounts are positive)
StoredAmount(a) == (a + 5) \div 10

\* input.note || null: an empty note and a note left out are both stored null
NoteOrNull(n) == IF n = {""} THEN NoNote ELSE n

\* an UPDATE that sets the amount alone
UpdateQuoteAmountOnly(qs, q, input) ==
  IF q \in DOMAIN qs
    THEN [qs EXCEPT ![q].amount = StoredAmount(input.amount)]
    ELSE qs

\* UPDATE quotes SET amount, expected_days, note WHERE id = existing
\* (no row: nothing happens)
UpdateQuote(qs, q, input) ==
  IF q \in DOMAIN qs
    THEN [qs EXCEPT ![q].amount = StoredAmount(input.amount),
                    ![q].expectedDays = input.expectedDays,
                    ![q].note = NoteOrNull(input.note)]
    ELSE qs

\* INSERT INTO quotes (case_id, lawyer_id, amount, expected_days, note,
\* status 'proposed'): the note is written as sent
InsertQuote(qs, id, c, lawyer, input) ==
  qs @@ (id :> [caseId |-> c, lawyerId |-> lawyer,
                amount |-> StoredAmount(input.amount),
                expectedDays |-> input.expectedDays, note |-> input.note,
                status |-> "proposed"])

\* the quoteId quotes.submit returns
SubmitResult(r) == IF r.existing # NoQuote THEN r.existing ELSE quoteSeq + 1

SubmitWrite(r) ==
  /\ r \in Waiting /\ r.op = "submit" /\ r.pc = "write"
  /\ IF r.existing # NoQuote
       THEN /\ quotes' = UpdateQuote(quotes, r.existing, r.input)
            /\ UNCHANGED quoteSeq
       ELSE /\ quoteSeq' = quoteSeq + 1
            /\ quotes' = InsertQuote(quotes, quoteSeq + 1, r.caseId, r.userId, r.input)
  /\ Finish(r)
  /\ UNCHANGED <<cases, payments, intents, reply, files, objects>>

\* ---------------------------------------------------------- quotes.withdraw
\* a lookup by id and lawyer that leaves the status out
CanWithdrawAnyStatus(qs, q, lawyer) ==
  /\ q \in DOMAIN qs
  /\ qs[q].lawyerId = lawyer

\* SELECT ... WHERE id = quoteId AND lawyer_id = user AND status = 'proposed'
CanWithdraw(qs, q, lawyer) ==
  /\ q \in DOMAIN qs
  /\ qs[q].lawyerId = lawyer
  /\ qs[q].status = "proposed"

WithdrawRead(lawyer, q) ==
  /\ CanStart
  /\ IF CanWithdraw(quotes, q, lawyer)
       THEN Suspend([op |-> "withdraw", pc |-> "delete", userId |-> lawyer,
                     quoteId |-> q])
       ELSE UNCHANGED inflight   \* NOT_FOUND
  /\ UNCHANGED <<cases, quotes, payments, intents, quoteSeq, reply, files,
                 objects>>

\* DELETE FROM quotes WHERE id = quoteId; its payments go by cascade, and
\* cases.accepted_quote_id, which is no foreign key, keeps its value
WithdrawDelete(r) ==
  /\ r \in Waiting /\ r.op = "withdraw"
  /\ quotes' = Without(quotes, {r.quoteId})
  /\ payments' = CascadePayments(payments, {r.quoteId})
  /\ Finish(r)
  /\ UNCHANGED <<cases, intents, quoteSeq, reply, files, objects>>

\* ------------------------------------------------------ createPaymentIntent
PendingIntents ==
  BagCardinality([r \in {x \in Waiting : x.op = "createPaymentIntent" /\ x.pc = "stripe"}
                    |-> inflight[r]])

\* the checks without the one on the case status
IntentCheckAnyCase(qs, cs, q, client) ==
  IF ~(q \in DOMAIN qs /\ qs[q].status = "proposed" /\ qs[q].caseId \in DOMAIN cs)
    THEN "NOT_FOUND"
  ELSE IF cs[qs[q].caseId].clientId # client THEN "FORBIDDEN"
  ELSE "ok"

\* SELECT quote JOIN case WHERE quote.id = quoteId AND quote.status = 'proposed',
\* then the ownership and the open-case checks
IntentCheck(qs, cs, q, client) ==
  IF ~(q \in DOMAIN qs /\ qs[q].status = "proposed" /\ qs[q].caseId \in DOMAIN cs)
    THEN "NOT_FOUND"
  ELSE IF cs[qs[q].caseId].clientId # client THEN "FORBIDDEN"
  ELSE IF cs[qs[q].caseId].status # "open" THEN "BAD_REQUEST"
  ELSE "ok"

IntentRead(client, q) ==
  /\ CanStart
  /\ Cardinality(DOMAIN intents) + PendingIntents < MaxIntents
  /\ LET code == IntentCheck(quotes, cases, q, client) IN
       IF code = "ok"
         THEN Suspend([op |-> "createPaymentIntent", pc |-> "stripe",
                       clientId |-> client, quoteId |-> q,
                       caseId |-> quotes[q].caseId,
                       lawyerId |-> quotes[q].lawyerId, intentId |-> 0])
         ELSE UNCHANGED inflight
  /\ UNCHANGED <<cases, quotes, payments, intents, quoteSeq, reply, files,
                 objects>>

\* a handler that goes on to its INSERT when stripe.paymentIntents.create threw
IntentStripeIgnoresError(r, created) ==
  /\ r \in Waiting /\ r.op = "createPaymentIntent" /\ r.pc = "stripe"
  /\ LET id == Cardinality(DOMAIN intents) + 1 IN
       /\ intents' = intents @@ (id :> [quoteId |-> r.quoteId, caseId |-> r.caseId,
                                        secret |-> FALSE])
       /\ Resume(r, [r EXCEPT !.pc = "insert", !.intentId = id])
  /\ UNCHANGED <<cases, quotes, payments, quoteSeq, reply, files, objects>>

\* stripe.paymentIntents.create: it throws, or the provider holds a new intent
\* carrying the metadata; secret says whether the client was given its secret
IntentStripe(r, created) ==
  /\ r \in Waiting /\ r.op = "createPaymentIntent" /\ r.pc = "stripe"
  /\ IF created
       THEN LET id == Cardinality(DOMAIN intents) + 1 IN
            /\ intents' = intents @@ (id :> [quoteId |-> r.quoteId,
                                              caseId |-> r.caseId,
                                              secret |-> FALSE])
            /\ Resume(r, [r EXCEPT !.pc = "insert", !.intentId = id])
       ELSE /\ Finish(r)   \* INTERNAL_SERVER_ERROR
            /\ UNCHANGED intents
  /\ UNCHANGED <<cases, quotes, payments, quoteSeq, reply, files, objects>>

\* INSERT INTO payments (..., status 'pending')
InsertPayment(p, r) ==
  p @@ (r.intentId :> [caseId |-> r.caseId, quoteId |-> r.quoteId,
                       clientId |-> r.clientId, lawyerId |-> r.lawyerId,
                       status |-> "pending"])

\* the insert violates payments.quote_id's foreign key if the quote was
\* withdrawn meanwhile: the catch block answers INTERNAL_SERVER_ERROR
IntentInsert(r) ==
  /\ r \in Waiting /\ r.op = "createPaymentIntent" /\ r.pc = "insert"
  /\ IF r.quoteId \in DOMAIN quotes
       THEN /\ payments' = InsertPayment(payments, r)
            /\ \E insertFails \in BOOLEAN :
                 intents' = [intents EXCEPT ![r.intentId].secret =
                               (HandlerResult("payments.createIntent", insertFails) = "ok")]
       ELSE UNCHANGED <<payments, intents>>
  /\ Finish(r)
  /\ UNCHANGED <<cases, quotes, quoteSeq, reply, files, objects>>

\* ------------------------------------------------------------ read paths
\* Whether each read path answers with the data (TRUE) or throws (FALSE), as
\* a function of the tables at the time of the call.  A file is named by the
\* case it was uploaded to: every case has one, files.case_id never changes.

\* SELECT FROM quotes WHERE id = accepted_quote_id AND lawyer_id = user AND
\* status = 'accepted' LIMIT 1 returns a row
HoldsAcceptedQuote(cs, qs, c, userId) ==
  /\ cs[c].acceptedQuoteId \in DOMAIN qs
  /\ qs[cs[c].acceptedQuoteId].lawyerId = userId
  /\ qs[cs[c].acceptedQuoteId].status = "accepted"

\* files service, getSignedDownloadUrl: the file's case is read, a client who
\* is not the owner is refused, a lawyer is refused unless the case is
\* engaged and the lawyer holds its accepted quote; then the URL is signed
getSignedDownloadUrl(cs, qs, c, userId, userRole) ==
  IF c \notin DOMAIN cs THEN FALSE
  ELSE IF userRole = "client" /\ cs[c].clientId # userId THEN FALSE
  ELSE IF userRole = "lawyer"
    THEN cs[c].status = "engaged" /\ HoldsAcceptedQuote(cs, qs, c, userId)
  ELSE TRUE

\* files service, getCaseFiles: the same checks on the case row
getCaseFiles(cs, qs, c, userId, userRole) ==
  IF c \notin DOMAIN cs THEN FALSE
  ELSE IF userRole = "client" /\ cs[c].clientId # userId THEN FALSE
  ELSE IF userRole = "lawyer"
    THEN /\ cs[c].status = "engaged" /\ cs[c].acceptedQuoteId # NoQuote
         /\ HoldsAcceptedQuote(cs, qs, c, userId)
  ELSE TRUE

\* cases.getCaseForLawyer: FORBIDDEN unless the role is lawyer, then
\* SELECT FROM cases JOIN quotes ON quotes.case_id = cases.id AND
\* quotes.lawyer_id = user AND quotes.status = 'accepted'
\* WHERE cases.id = c AND cases.status = 'engaged' LIMIT 1 returns a row
getCaseForLawyer(cs, qs, c, userId, userRole) ==
  /\ userRole = "lawyer"
  /\ c \in DOMAIN cs
  /\ cs[c].status = "engaged"
  /\ \E q \in DOMAIN qs : /\ qs[q].caseId = c
                           /\ qs[q].lawyerId = userId
                           /\ qs[q].status = "accepted"

\* quotes.getQuotesForCase: NOT_FOUND unless the caller owns the case, then
\* SELECT id, amount, expected_days, note, status FROM quotes WHERE case_id = c
getQuotesForCase(cs, qs, c, userId) ==
  IF ~(c \in DOMAIN cs /\ cs[c].clientId = userId)
    THEN [code |-> "NOT_FOUND", quotes |-> << >>]
    ELSE [code |-> "ok",
          quotes |-> [q \in {x \in DOMAIN qs : qs[x].caseId = c} |->
                        [amount |-> qs[q].amount, expectedDays |-> qs[q].expectedDays,
                         note |-> qs[q].note, status |-> qs[q].status]]]

\* cases.getCaseById: NOT_FOUND unless the caller owns the case, then the
\* case row with SELECT * FROM quotes WHERE case_id = c (and the files)
getCaseById(cs, qs, c, userId) ==
  IF ~(c \in DOMAIN cs /\ cs[c].clientId = userId)
    THEN [code |-> "NOT_FOUND", quotes |-> << >>]
    ELSE [code |-> "ok",
          quotes |-> [q \in {x \in DOMAIN qs : qs[x].caseId = c} |-> qs[q]]]

\* files.getSignedUrl: the service's refusal, or a throw of anything after
\* it, is answered FORBIDDEN; otherwise the URL
getSignedUrl(cs, qs, c, userId, userRole, insertFails) ==
  IF ~getSignedDownloadUrl(cs, qs, c, userId, userRole) THEN "FORBIDDEN"
  ELSE IF HandlerResult("files.getSignedUrl", insertFails) # "ok" THEN "FORBIDDEN"
  ELSE "url"

\* ---------------------------------------------------- handlePaymentWebhook
\* UPDATE payments SET status WHERE stripe_payment_intent_id = intent
MarkPayment(p, i, status) ==
  IF i \in DOMAIN p THEN [p EXCEPT ![i].status = status] ELSE p

\* an UPDATE that rejects the proposed quotes of every case
RejectProposedEverywhere(qs, c) ==
  [q \in DOMAIN qs |->
     IF qs[q].status = "proposed"
       THEN [qs[q] EXCEPT !.status = "rejected"]
       ELSE qs[q]]

\* UPDATE quotes SET status = 'rejected' WHERE case_id = c AND status = 'proposed'
RejectProposed(qs, c) ==
  [q \in DOMAIN qs |->
     IF qs[q].caseId = c /\ qs[q].status = "proposed"
       THEN [qs[q] EXCEPT !.status = "rejected"]
       ELSE qs[q]]

\* UPDATE quotes SET status = 'accepted' WHERE id = q
AcceptQuote(qs, q) ==
  IF q \in DOMAIN qs THEN [qs EXCEPT ![q].status = "accepted"] ELSE qs

\* an UPDATE that engages the case and leaves accepted_quote_id as it was
EngageCaseNoReference(cs, c, q) ==
  IF c \in DOMAIN cs THEN [cs EXCEPT ![c].status = "engaged"] ELSE cs

\* UPDATE cases SET status = 'engaged', accepted_quote_id = q WHERE id = c
EngageCase(cs, c, q) ==
  IF c \in DOMAIN cs
    THEN [cs EXCEPT ![c].status = "engaged", ![c].acceptedQuoteId = q]
    ELSE cs

\* the tables as the transaction sees them after its first n statements
Statements(d, i, q, c, n) ==
  LET d1 == [d EXCEPT !.payments = MarkPayment(d.payments, i, "succeeded")]
      d2 == [d1 EXCEPT !.quotes = RejectProposed(d1.quotes, c)]
      d3 == [d2 EXCEPT !.quotes = AcceptQuote(d2.quotes, q)]
      d4 == [d3 EXCEPT !.cases = EngageCase(d3.cases, c, q)]
  IN CASE n = 0 -> d [] n = 1 -> d1 [] n = 2 -> d2 [] n = 3 -> d3 [] OTHER -> d4

\* without db.transaction: the statements before the failing one stay applied
TransactionNoRollback(d, i, q, c, failAt) ==
  Statements(d, i, q, c, IF failAt = 0 THEN 4 ELSE failAt - 1)

\* db.transaction: statement failAt throws (0: none does) and everything is
\* rolled back, or all four statements commit
Transaction(d, i, q, c, failAt) ==
  IF failAt = 0 THEN Statements(d, i, q, c, 4) ELSE d

\* the route answers {received: true}, or 400 with the error when
\* handlePaymentWebhook threw
Reply(type, threw) ==
  [type |-> type, code |-> IF threw THEN "error" ELSE "received"]

Tables == [cases |-> cases, quotes |-> quotes, payments |-> payments]

\* the provider sends events for the intents whose secret a client holds
Payable == {i \in DOMAIN intents : intents[i].secret}

\* POST /webhooks/stripe with a verified payment_intent.succeeded event
WebhookSucceeded(i, failAt) ==
  /\ i \in Payable
  /\ LET d == Transaction(Tables, i, intents[i].quoteId, intents[i].caseId, failAt) IN
       /\ cases' = d.cases
       /\ quotes' = d.quotes
       /\ payments' = d.payments
  /\ reply' = Reply("succeeded", failAt # 0)
  /\ UNCHANGED <<intents, quoteSeq, inflight, files, objects>>

\* a failed branch that also rejects the quote the intent pays
WebhookFailedRejects(i, fails) ==
  /\ i \in Payable
  /\ payments' = IF fails THEN payments ELSE MarkPayment(payments, i, "failed")
  /\ quotes' = IF fails \/ intents[i].quoteId \notin DOMAIN quotes
                 THEN quotes
                 ELSE [quotes EXCEPT ![intents[i].quoteId].status = "rejected"]
  /\ reply' = Reply("failed", fails)
  /\ UNCHANGED <<cases, intents, quoteSeq, inflight, files, objects>>

\* POST /webhooks/stripe with a verified payment_intent.payment_failed event
WebhookFailed(i, fails) ==
  /\ i \in Payable
  /\ payments' = IF fails THEN payments ELSE MarkPayment(payments, i, "failed")
  /\ reply' = Reply("failed", fails)
  /\ UNCHANGED <<cases, quotes, intents, quoteSeq, inflight, files, objects>>

\* the stripe-signature header of a request: left out, not verifying
\* against the payload and the webhook secret, or verifying
Signatures == {"missing", "invalid", "valid"}

\* verifyWebhookSignature: stripe.webhooks.constructEvent returns the event
\* if the signature verifies and throws if not
verifyWebhookSignature(signature) == signature = "valid"

\* a route that hands the payload's event, naming intent i, to the handler
\* without verifying
WebhookUnverifiedHandles(signature, i) ==
  /\ signature = "missing" \/ ~verifyWebhookSignature(signature)
  /\ i \in DOMAIN intents
  /\ LET d == Transaction(Tables, i, intents[i].quoteId, intents[i].caseId, 0) IN
       /\ cases' = d.cases /\ quotes' = d.quotes /\ payments' = d.payments
  /\ reply' = Reply("succeeded", FALSE)
  /\ UNCHANGED <<intents, quoteSeq, inflight, files, objects>>

\* POST /webhooks/stripe without a stripe-signature header, or with one that
\* does not verify, whatever event (about intent i) the payload describes:
\* 400 before handlePaymentWebhook is called
WebhookUnverified(signature, i) ==
  /\ signature = "missing" \/ ~verifyWebhookSignature(signature)
  /\ reply' = Reply("unverified", TRUE)
  /\ UNCHANGED <<cases, quotes, payments, intents, quoteSeq, inflight,
                 files, objects>>

\* any other verified event type: acknowledged, nothing done
WebhookOther ==
  /\ reply' = Reply("other", FALSE)
  /\ UNCHANGED <<cases, quotes, payments, intents, quoteSeq, inflight,
                 files, objects>>

Init ==
  /\ cases = << >>
  /\ quotes = << >>
  /\ payments = << >>
  /\ intents = << >>
  /\ quoteSeq = 0
  /\ inflight = EmptyBag
  /\ reply = [type |-> "none", code |-> "none"]
  /\ files = << >>
  /\ objects = << >>

Next ==
  \/ \E client \in Owners : CaseCreate(client)
  \/ \E client \in Clients, c \in CaseIds, s \in {"closed", "cancelled"} :
       UpdateStatusRead(client, c, s)
  \/ \E r \in Waiting : UpdateStatusWrite(r)
  \/ \E lawyer \in Lawyers, c \in CaseIds, input \in SubmitInputs :
       SubmitReadCase(lawyer, c, input)
  \/ \E r \in Waiting : SubmitLookup(r)
  \/ \E r \in Waiting : SubmitWrite(r)
  \/ \E lawyer \in Lawyers, q \in QuoteIds : WithdrawRead(lawyer, q)
  \/ \E r \in Waiting : WithdrawDelete(r)
  \/ \E client \in Clients, q \in QuoteIds : IntentRead(client, q)
  \/ \E r \in Waiting, created \in BOOLEAN : IntentStripe(r, created)
  \/ \E r \in Waiting : IntentInsert(r)
  \/ \E i \in IntentIds, failAt \in 0..4 : WebhookSucceeded(i, failAt)
  \/ \E i \in IntentIds, fails \in BOOLEAN : WebhookFailed(i, fails)
  \/ \E signature \in Signatures, i \in IntentIds : WebhookUnverified(signature, i)
  \/ WebhookOther

Spec == Init /\ [][Next]_vars

\* ------------------------------------------------------- POST /api/upload
\* Storage keys are numbered in the order uploadFile makes them; the key of
\* an object names the caseId it was made for (cases/<caseId>/...).
StorageKeys == 1..MaxFiles

\* 403 unless the session's role is 'client'; the caseId of the form is
\* taken as sent
UploadCheck(userRole) == IF userRole # "client" THEN "403" ELSE "ok"

\* uploadFile: PutObject under a fresh key, or a throw (answered 500)
UploadStore(user, c, stored) ==
  /\ CanStart
  /\ Cardinality(DOMAIN objects) < MaxFiles
  /\ IF UploadCheck(RoleOf(user)) = "ok" /\ stored
       THEN LET key == Cardinality(DOMAIN objects) + 1 IN
            /\ objects' = objects @@ (key :> c)
            /\ Suspend([op |-> "upload", pc |-> "insert", userId |-> user,
                         caseId |-> c, storageKey |-> key])
       ELSE UNCHANGED <<objects, inflight>>
  /\ UNCHANGED <<cases, quotes, payments, intents, quoteSeq, reply, files>>

\* INSERT INTO files (case_id, storage_key, ...): files.case_id references
\* cases.id, so the insert throws (500) for a case that does not exist
UploadInsert(r) ==
  /\ r \in Waiting /\ r.op = "upload" /\ r.pc = "insert"
  /\ IF r.caseId \in DOMAIN cases
       THEN files' = files @@ (r.storageKey :> r.caseId)
       ELSE UNCHANGED files
  /\ Finish(r)
  /\ UNCHANGED <<cases, quotes, payments, intents, quoteSeq, reply, objects>>

\* the route on its own, over cases of either client in any status
InitFiles ==
  /\ \E n \in 1..MaxRefCases :
       cases \in [1..n -> [clientId : Clients, status : CaseStatuses,
                           acceptedQuoteId : {NoQuote}]]
  /\ quotes = << >> /\ payments = << >> /\ intents = << >>
  /\ quoteSeq = 0
  /\ inflight = EmptyBag
  /\ reply = [type |-> "none", code |-> "none"]
  /\ files = << >>
  /\ objects = << >>

NextFiles ==
  \/ \E user \in Users, c \in RefCases, stored \in BOOLEAN : UploadStore(user, c, stored)
  \/ \E r \in Waiting : UploadInsert(r)

SpecFiles == InitFiles /\ [][NextFiles]_vars

\* --------------------------------------- handlePaymentWebhook on any tables
\* The handler as a function of the tables and of the event: the tables hold
\* MaxRefCases cases in any status and up to MaxRefQuotes quotes in any status
\* on any of them, and the provider holds one intent whose client was given
\* the secret.  createPaymentIntent copies the metadata from the quote row it
\* has read, so the intent names a quote and that quote's case; a quote is
\* only ever deleted together with its payments; accepted_quote_id is null
\* until the case is engaged and then names a quote of the case, which may
\* since have been deleted.

InitAccept ==
  /\ cases \in [RefCases -> [clientId : Owners, status : CaseStatuses,
                              acceptedQuoteId : {NoQuote} \cup RefQuotes]]
  /\ \A c \in RefCases :
       /\ cases[c].status = "open" => cases[c].acceptedQuoteId = NoQuote
       /\ cases[c].status = "engaged" => cases[c].acceptedQuoteId # NoQuote
  /\ \E n \in (MaxRefQuotes - 1)..MaxRefQuotes :
       /\ quoteSeq = n
       /\ quotes \in [1..n -> [caseId : RefCases, lawyerId : {"l1"}, amount : {10000},
                                expectedDays : {7}, note : {NoNote},
                                status : QuoteStatuses]]
       /\ \A c \in RefCases :
            cases[c].acceptedQuoteId \in DOMAIN quotes
              => quotes[cases[c].acceptedQuoteId].caseId = c
  /\ \E q \in RefQuotes, c \in RefCases :
       /\ q \in DOMAIN quotes => quotes[q].caseId = c
       /\ intents = (1 :> [quoteId |-> q, caseId |-> c, secret |-> TRUE])
       /\ IF q \in DOMAIN quotes
            THEN \E st \in PaymentStatuses :
                   payments = (1 :> [caseId |-> c, quoteId |-> q, clientId |-> cases[c].clientId,
                                     lawyerId |-> quotes[q].lawyerId, status |-> st])
            ELSE payments = << >>
  /\ inflight = EmptyBag
  /\ reply = [type |-> "none", code |-> "none"]
  /\ files = << >>
  /\ objects = << >>

NextAccept ==
  \/ \E i \in IntentIds, failAt \in 0..4 : WebhookSucceeded(i, failAt)
  \/ \E i \in IntentIds, fails \in BOOLEAN : WebhookFailed(i, fails)

SpecAccept == InitAccept /\ [][NextAccept]_vars

\* ------------------------------------------------------------------ claims
AcceptedOn(c) == {q \in DOMAIN quotes : quotes[q].caseId = c /\ quotes[q].status = "accepted"}

\* C1: every case has at most one accepted quote, and if it has one the
\* case's acceptedQuoteId is that quote and the case is engaged.
C1_OneAcceptedQuote ==
  \A c \in DOMAIN cases :
    /\ Cardinality(AcceptedOn(c)) <= 1
    /\ \A q \in AcceptedOn(c) :
         cases[c].acceptedQuoteId = q /\ cases[c].status = "engaged"

\* C2: a charge-succeeded notification that finds its case not open changes
\* no quote and leaves the case as it was, and is acknowledged.
C2_ConflictIsNoOp ==
  [][\A i \in IntentIds :
       (/\ WebhookSucceeded(i, 0)
        /\ intents[i].caseId \in DOMAIN cases
        /\ cases[intents[i].caseId].status # "open")
       => (quotes' = quotes /\ cases' = cases /\ reply'.code = "received")]_vars

\* C3: a charge-succeeded notification for a payment that is already
\* succeeded changes no payment, no quote and no case.
C3_RedeliveryIsNoOp ==
  [][\A i \in IntentIds, k \in 0..4 :
       (/\ WebhookSucceeded(i, k)
        /\ i \in DOMAIN payments
        /\ payments[i].status = "succeeded")
       => UNCHANGED <<payments, quotes, cases>>]_vars

\* C4: acceptedQuoteId is set exactly when the case is engaged, and then it
\* names an existing accepted quote of this case.
C4_AcceptedReference ==
  \A c \in DOMAIN cases :
    LET q == cases[c].acceptedQuoteId IN
      /\ (q # NoQuote) <=> (cases[c].status = "engaged")
      /\ q # NoQuote => /\ q \in DOMAIN quotes
                        /\ quotes[q].caseId = c
                        /\ quotes[q].status = "accepted"

\* C5: when a statement of the reconciliation fails, none of its writes is
\* visible and the route answers with an error; when the route answers
\* {received: true} to a succeeded event, all four writes are visible.
C5_AllOrNothing ==
  [][\A i \in IntentIds, k \in 0..4 :
       WebhookSucceeded(i, k) =>
         LET q == intents[i].quoteId
             c == intents[i].caseId IN
         /\ k # 0 => (UNCHANGED <<payments, quotes, cases>> /\ reply'.code = "error")
         /\ reply'.code = "received" =>
              /\ i \in DOMAIN payments => payments'[i].status = "succeeded"
              /\ q \in DOMAIN quotes => quotes'[q].status = "accepted"
              /\ \A o \in DOMAIN quotes \ {q} :
                   (quotes[o].caseId = c /\ quotes[o].status = "proposed")
                     => quotes'[o].status = "rejected"
              /\ cases'[c].status = "engaged"
              /\ cases'[c].acceptedQuoteId = q]_vars

\* a failed delivery has left a payable intent's payment pending, its quote
\* proposed beside a proposed sibling, and its case open
C5_Witness ==
  /\ reply = Reply("succeeded", TRUE)
  /\ \E i \in Payable :
       /\ i \in DOMAIN payments /\ payments[i].status = "pending"
       /\ intents[i].quoteId \in DOMAIN quotes
       /\ quotes[intents[i].quoteId].status = "proposed"
       /\ cases[intents[i].caseId].status = "open"
       /\ \E o \in DOMAIN quotes \ {intents[i].quoteId} :
            quotes[o].caseId = intents[i].caseId /\ quotes[o].status = "proposed"

\* C6: beside an accepted quote, every other quote of the case is rejected.
C6_SiblingsRejected ==
  \A q \in DOMAIN quotes :
    quotes[q].status = "accepted" =>
      \A o \in DOMAIN quotes \ {q} :
        quotes[o].caseId = quotes[q].caseId => quotes[o].status = "rejected"

\* C7: a payment that is succeeded or failed keeps that status.
C7_PaymentTerminal ==
  [][\A i \in DOMAIN payments \cap DOMAIN payments' :
       payments[i].status \in {"succeeded", "failed"}
         => payments'[i].status = payments[i].status]_vars

\* a payment of quote q reaches 'succeeded' in this step
ReachesSucceeded(q) ==
  \E i \in DOMAIN payments' :
    /\ payments'[i].quoteId = q
    /\ payments'[i].status = "succeeded"
    /\ i \in DOMAIN payments
    /\ payments[i].status # "succeeded"

\* C8: a quote becomes accepted, or a case engaged, only in a step in which
\* a payment of that quote reaches 'succeeded'.
C8_OnlyPaymentEngages ==
  [][/\ \A q \in DOMAIN quotes' :
          (/\ quotes'[q].status = "accepted"
           /\ (q \in DOMAIN quotes => quotes[q].status # "accepted"))
          => ReachesSucceeded(q)
     /\ \A c \in DOMAIN cases :
          (cases'[c].status = "engaged" /\ cases[c].status # "engaged")
          => ReachesSucceeded(cases'[c].acceptedQuoteId)]_vars

\* C9: a case that has left 'open' (engaged, closed, cancelled) is never
\* 'open' again; an engaged case in particular never returns to 'open'.
C9_NeverReopened ==
  [][\A c \in DOMAIN cases :
       cases[c].status # "open" => cases'[c].status # "open"]_vars

\* an engaged case was closed or cancelled by its owner afterwards
C9_Witness ==
  \E c \in DOMAIN cases :
    /\ cases[c].status \in {"closed", "cancelled"}
    /\ cases[c].acceptedQuoteId # NoQuote

\* C10: a lawyer has at most one proposed quote on a case.
C10_OneProposedPerLawyer ==
  \A c \in DOMAIN cases, lawyer \in Lawyers :
    Cardinality(ProposedBy(quotes, c, lawyer)) <= 1

\* a quotes.submit about to write that found the lawyer's proposed quote, the
\* quote being as it was found: nothing happened to it in between
Resubmits(r) ==
  /\ r.op = "submit" /\ r.pc = "write"
  /\ r.existing \in ProposedBy(quotes, r.caseId, r.userId)

\* what C11 says of the lookup and of the row count: the lawyer's proposed
\* quote is found, no row is inserted, the existing id is returned and the
\* quote stays proposed
ResubmitKeepsRow(r) ==
  /\ (SubmitLookup(r) /\ ProposedBy(quotes, r.caseId, r.userId) # {})
       => \E s \in BagToSet(inflight') :
            /\ s.op = "submit" /\ s.pc = "write"
            /\ s.existing \in ProposedBy(quotes, r.caseId, r.userId)
  /\ (Resubmits(r) /\ SubmitWrite(r))
       => /\ SubmitResult(r) = r.existing
          /\ DOMAIN quotes' = DOMAIN quotes
          /\ quoteSeq' = quoteSeq
          /\ \A q \in DOMAIN quotes \ {r.existing} : quotes'[q] = quotes[q]
          /\ quotes'[r.existing].status = "proposed"
          /\ quotes'[r.existing].caseId = quotes[r.existing].caseId
          /\ quotes'[r.existing].lawyerId = quotes[r.existing].lawyerId
          /\ quotes'[r.existing].expectedDays = r.input.expectedDays

\* C11 as stated: a lawyer who has a 'proposed' quote on an open case and
\* submits again gets no new row and the id of the existing quote, whose
\* amount, expectedDays and note take the values sent (the amount is stored
\* in hundredths, the input is in thousandths) and whose status stays
\* 'proposed'.
C11_TakesValuesSent ==
  [][\A r \in Waiting :
       /\ ResubmitKeepsRow(r)
       /\ (Resubmits(r) /\ SubmitWrite(r))
            => /\ quotes'[r.existing].amount * 10 = r.input.amount
               /\ quotes'[r.existing].note = r.input.note]_vars

\* C11, amended: as above, the amount taking the value sent rounded to two
\* decimals and the note the value sent, or null if the note sent is empty
\* or left out.
C11_ResubmitUpdatesInPlace ==
  [][\A r \in Waiting :
       /\ ResubmitKeepsRow(r)
       /\ (Resubmits(r) /\ SubmitWrite(r))
            => /\ quotes'[r.existing].amount = StoredAmount(r.input.amount)
               /\ quotes'[r.existing].note
                    = (IF r.input.note \in {NoNote, {""}} THEN NoNote ELSE r.input.note)]_vars

\* a single quote was ever inserted and it carries what only an update
\* writes: an empty note stored as null, beside a rounded amount
C11_Witness ==
  /\ quoteSeq = 1
  /\ 1 \in DOMAIN quotes
  /\ quotes[1].status = "proposed"
  /\ quotes[1].note = NoNote
  /\ quotes[1].amount = 20001

\* the test suite's reference for the success transaction (part_003:372-393)
simulateQuoteAcceptance(targetQuoteId, allQuotes, caseData) ==
  [quotes |-> [q \in DOMAIN allQuotes |->
                 IF q = targetQuoteId
                   THEN [allQuotes[q] EXCEPT !.status = "accepted"]
                 ELSE IF allQuotes[q].caseId = caseData.id /\ allQuotes[q].status = "proposed"
                   THEN [allQuotes[q] EXCEPT !.status = "rejected"]
                 ELSE allQuotes[q]],
   case |-> [caseData EXCEPT !.status = "engaged", !.acceptedQuoteId = targetQuoteId]]

\* the case row c as the reference takes it: with its id
CaseData(cs, c) == [id |-> c, clientId |-> cs[c].clientId, status |-> cs[c].status,
                    acceptedQuoteId |-> cs[c].acceptedQuoteId]

\* intent i pays a 'proposed' quote of an open case
PaysProposedOnOpen(i) ==
  /\ i \in Payable
  /\ intents[i].quoteId \in DOMAIN quotes
  /\ quotes[intents[i].quoteId].status = "proposed"
  /\ quotes[intents[i].quoteId].caseId = intents[i].caseId
  /\ cases[intents[i].caseId].status = "open"

\* C12: for every open case C, whatever the quotes, and every 'proposed'
\* quote Q on C, the committed success transaction leaves the quotes and the
\* case as the reference simulateQuoteAcceptance(Q, allQuotes, C) computes
\* them: Q accepted, every other proposed quote on C rejected, every other
\* quote unchanged, C engaged with acceptedQuoteId = Q.
C12_RefinesReference ==
  [][\A i \in IntentIds :
       (PaysProposedOnOpen(i) /\ WebhookSucceeded(i, 0))
         => LET c == intents[i].caseId
                ref == simulateQuoteAcceptance(intents[i].quoteId, quotes, CaseData(cases, c))
            IN /\ quotes' = ref.quotes
               /\ CaseData(cases', c) = ref.case
               /\ \A d \in DOMAIN cases \ {c} : cases'[d] = cases[d]
               /\ DOMAIN cases' = DOMAIN cases]_vars

\* a committed success notification has left an engaged case with its
\* accepted quote, a rejected sibling, and a proposed quote on the other case
C12_Witness ==
  /\ reply = [type |-> "succeeded", code |-> "received"]
  /\ \E c \in DOMAIN cases, q, sib, o \in DOMAIN quotes :
       /\ cases[c].status = "engaged" /\ cases[c].acceptedQuoteId = q
       /\ \E i \in DOMAIN intents : intents[i].quoteId = q /\ intents[i].caseId = c
       /\ quotes[q].caseId = c /\ quotes[q].status = "accepted"
       /\ sib # q /\ quotes[sib].caseId = c /\ quotes[sib].status = "rejected"
       /\ quotes[o].caseId # c /\ quotes[o].status = "proposed"

\* C13: a succeeded notification for a quote on case D leaves every quote of
\* any other case C, and the case row C, as they were.
C13_OtherCasesUntouched ==
  [][\A i \in IntentIds, failAt \in 0..4 :
       WebhookSucceeded(i, failAt)
         => \A c \in DOMAIN cases \ {intents[i].caseId} :
              /\ c \in DOMAIN cases' /\ cases'[c] = cases[c]
              /\ \A q \in DOMAIN quotes :
                   quotes[q].caseId = c => q \in DOMAIN quotes' /\ quotes'[q] = quotes[q]
              /\ \A q \in DOMAIN quotes' : quotes'[q].caseId = c => q \in DOMAIN quotes]_vars

\* a committed success notification engaged one case while the other case is
\* open with a proposed quote
C13_Witness ==
  /\ reply = [type |-> "succeeded", code |-> "received"]
  /\ \E i \in DOMAIN intents, c \in DOMAIN cases, q \in DOMAIN quotes :
       /\ c # intents[i].caseId
       /\ cases[intents[i].caseId].status = "engaged"
       /\ cases[intents[i].caseId].acceptedQuoteId = intents[i].quoteId
       /\ cases[c].status = "open"
       /\ quotes[q].caseId = c /\ quotes[q].status = "proposed"

\* C14: a charge-failed notification for intent I changes nothing but the
\* status of the Payment row of I: every quote, every case and every other
\* Payment row is unchanged, so the quote stays 'proposed' and the case 'open'.
C14_FailedTouchesOnePayment ==
  [][\A i \in IntentIds, fails \in BOOLEAN :
       WebhookFailed(i, fails)
         => /\ quotes' = quotes
            /\ cases' = cases
            /\ DOMAIN payments' = DOMAIN payments
            /\ \A j \in DOMAIN payments \ {i} : payments'[j] = payments[j]
            /\ i \in DOMAIN payments
                 => payments'[i] = [payments[i] EXCEPT !.status = payments'[i].status]]_vars

\* a failed notification was handled, its payment is 'failed', the quote it
\* paid is still 'proposed' on an open case, and another Payment row is 'pending'
C14_Witness ==
  /\ reply = [type |-> "failed", code |-> "received"]
  /\ \E i, j \in DOMAIN payments :
       /\ i # j
       /\ payments[i].status = "failed"
       /\ payments[j].status = "pending"
       /\ payments[i].quoteId \in DOMAIN quotes
       /\ quotes[payments[i].quoteId].status = "proposed"
       /\ cases[payments[i].caseId].status = "open"

\* lawyer l has the quote that case c references as accepted (section 4.5,
\* rule 3): c is engaged and a quote on c of l is 'accepted' and is
\* c's acceptedQuoteId
EngagedLawyer(c, l) ==
  /\ c \in DOMAIN cases
  /\ cases[c].status = "engaged"
  /\ \E q \in DOMAIN quotes : /\ quotes[q].caseId = c
                               /\ quotes[q].lawyerId = l
                               /\ quotes[q].status = "accepted"
                               /\ q = cases[c].acceptedQuoteId

\* C15: on each of the three read paths that give a lawyer the full case or
\* its files, lawyer L gets case C only if C is engaged and a quote on C of
\* L is 'accepted' and is C.acceptedQuoteId.
C15_OnlyEngagedLawyerReads ==
  \A c \in CaseIds, l \in Lawyers :
    (\/ getSignedDownloadUrl(cases, quotes, c, l, "lawyer")
     \/ getCaseFiles(cases, quotes, c, l, "lawyer")
     \/ getCaseForLawyer(cases, quotes, c, l, "lawyer"))
      => EngagedLawyer(c, l)

\* C16: whenever a lawyer is given the files of a case (getSignedDownloadUrl
\* or getCaseFiles), a Payment row of the case's accepted quote is 'succeeded'.
C16_AccessNeedsSucceededPayment ==
  \A c \in CaseIds, l \in Lawyers :
    (\/ getSignedDownloadUrl(cases, quotes, c, l, "lawyer")
     \/ getCaseFiles(cases, quotes, c, l, "lawyer"))
      => \E i \in DOMAIN payments : /\ payments[i].quoteId = cases[c].acceptedQuoteId
                                    /\ payments[i].status = "succeeded"

\* C17: getSignedDownloadUrl and getCaseFiles refuse every caller who is
\* neither a client owning the case nor a lawyer holding the accepted quote
\* of the engaged case; a caller of any other role is refused.
C17_AllOthersDenied ==
  \A c \in CaseIds, u \in Users :
    (\/ getSignedDownloadUrl(cases, quotes, c, u, RoleOf(u))
     \/ getCaseFiles(cases, quotes, c, u, RoleOf(u)))
      => \/ RoleOf(u) = "client" /\ cases[c].clientId = u
         \/ RoleOf(u) = "lawyer" /\ EngagedLawyer(c, u)

\* C18: quotes.withdraw(quoteId) by lawyer L goes on to delete the quote iff
\* a quote of that id exists, is L's and is 'proposed'; otherwise it answers
\* NOT_FOUND and no quote, case or payment is changed or deleted.  The
\* delete removes that quote, and with it its payments, and nothing else.
C18_WithdrawOnlyOwnProposed ==
  /\ [](\A l \in Lawyers, q \in QuoteIds :
          CanWithdraw(quotes, q, l)
            <=> (q \in DOMAIN quotes /\ quotes[q].lawyerId = l
                                       /\ quotes[q].status = "proposed"))
  /\ [][/\ \A l \in Lawyers, q \in QuoteIds :
             WithdrawRead(l, q)
               => /\ UNCHANGED <<cases, quotes, payments>>
                  /\ IF q \in DOMAIN quotes /\ quotes[q].lawyerId = l
                                               /\ quotes[q].status = "proposed"
                       THEN inflight' = inflight (+) SetToBag({[op |-> "withdraw", pc |-> "delete",
                                                               userId |-> l, quoteId |-> q]})
                       ELSE inflight' = inflight
        /\ \A r \in Waiting :
             WithdrawDelete(r)
               => /\ r.quoteId \notin DOMAIN quotes'
                  /\ DOMAIN quotes' = DOMAIN quotes \ {r.quoteId}
                  /\ \A q \in DOMAIN quotes' : quotes'[q] = quotes[q]
                  /\ cases' = cases
                  /\ \A i \in DOMAIN payments :
                       IF payments[i].quoteId = r.quoteId
                         THEN i \notin DOMAIN payments'
                         ELSE i \in DOMAIN payments' /\ payments'[i] = payments[i]]_vars

\* a quote was withdrawn (only quotes.withdraw deletes a quote) while another
\* lawyer's quote, and a quote that is no longer 'proposed', are still there
C18_Witness ==
  /\ inflight = EmptyBag
  /\ quoteSeq = 2
  /\ Cardinality(DOMAIN quotes) = 1
  /\ \E q \in DOMAIN quotes : quotes[q].status # "proposed"

\* what createPaymentIntent answers for a quote whose case is not open, by
\* the order of its checks
RefusalCode(q, client) ==
  IF quotes[q].status # "proposed" THEN "NOT_FOUND"
  ELSE IF cases[quotes[q].caseId].clientId # client THEN "FORBIDDEN"
  ELSE "BAD_REQUEST"

\* C19 as stated: createPaymentIntent(quoteId, clientId) for a quote whose
\* case is not 'open' fails with the invalid-state error (BAD_REQUEST), calls
\* the provider for no intent and inserts no Payment row.
C19_NotOpenIsBadRequest ==
  /\ [](\A client \in Clients, q \in DOMAIN quotes :
          cases[quotes[q].caseId].status # "open"
            => IntentCheck(quotes, cases, q, client) = "BAD_REQUEST")
  /\ [][\A client \in Clients, q \in DOMAIN quotes :
          (IntentRead(client, q) /\ cases[quotes[q].caseId].status # "open")
            => UNCHANGED <<inflight, intents, payments>>]_vars

\* C19, amended: the call fails, with NOT_FOUND if the quote is not
\* 'proposed', else FORBIDDEN if the caller does not own the case, else
\* BAD_REQUEST; it calls the provider for no intent and inserts no row.
C19_NotOpenIsRefused ==
  /\ [](\A client \in Clients, q \in DOMAIN quotes :
          cases[quotes[q].caseId].status # "open"
            => IntentCheck(quotes, cases, q, client) = RefusalCode(q, client))
  /\ [][\A client \in Clients, q \in DOMAIN quotes :
          (IntentRead(client, q) /\ cases[quotes[q].caseId].status # "open")
            => UNCHANGED <<inflight, intents, payments>>]_vars

\* the owner can call for a 'proposed' quote of a case that is no longer
\* open, and for a rejected one of an engaged case; neither has a payment
C19_Witness ==
  /\ inflight = EmptyBag /\ intents = << >> /\ payments = << >>
  /\ \E q \in DOMAIN quotes :
       quotes[q].status = "proposed" /\ cases[quotes[q].caseId].status \in {"closed", "cancelled"}

\* C20: if the provider's create-intent call fails, the request ends there:
\* no Payment row is inserted and no quote or case is changed.  A Payment
\* row appears only as 'pending', under an intent id the provider returned
\* for that quote.
C20_NoRowWithoutIntent ==
  [][/\ \A r \in Waiting :
          IntentStripe(r, FALSE)
            => /\ UNCHANGED <<payments, quotes, cases, intents>>
               /\ inflight' = inflight (-) SetToBag({r})
     /\ \A i \in DOMAIN payments' \ DOMAIN payments :
          /\ i \in DOMAIN intents
          /\ payments'[i].status = "pending"
          /\ payments'[i].quoteId = intents[i].quoteId]_vars

\* a 'pending' Payment row stands under an intent of the provider while a
\* second request is waiting for the provider's answer
C20_Witness ==
  /\ \E i \in DOMAIN payments : payments[i].status = "pending" /\ i \in DOMAIN intents
  /\ \E r \in Waiting : r.op = "createPaymentIntent" /\ r.pc = "stripe"

\* C21: quotes.submit for a case that is not 'open' answers BAD_REQUEST and
\* creates or updates no quote; for an absent case it answers NOT_FOUND and
\* changes nothing.
C21_SubmitNeedsOpenCase ==
  /\ [](\A c \in CaseIds :
          /\ c \notin DOMAIN cases => SubmitCheck(cases, c) = "NOT_FOUND"
          /\ (c \in DOMAIN cases /\ cases[c].status # "open")
               => SubmitCheck(cases, c) = "BAD_REQUEST")
  /\ [][\A lawyer \in Lawyers, c \in CaseIds, input \in SubmitInputs :
          (SubmitReadCase(lawyer, c, input)
             /\ (c \notin DOMAIN cases \/ cases[c].status # "open"))
            => UNCHANGED <<inflight, quotes, quoteSeq, cases, payments>>]_vars

\* a case that took a quote while open is engaged, and no request is under way
C21_Witness ==
  /\ inflight = EmptyBag
  /\ \E q \in DOMAIN quotes :
       cases[quotes[q].caseId].status = "engaged" /\ quotes[q].status = "accepted"

\* C22: cases.updateStatus by the owner of a case that is 'engaged',
\* 'closed' or 'cancelled' is refused and leaves the case's status and
\* acceptedQuoteId as they were.
C22_OwnerMovesOnlyOpenCases ==
  /\ [](\A c \in DOMAIN cases :
          cases[c].status # "open"
            => UpdateStatusCheck(cases, c, cases[c].clientId) # "ok")
  /\ [][\A r \in Waiting :
          (UpdateStatusWrite(r) /\ cases[r.caseId].status # "open")
            => cases' = cases]_vars

\* C23: a quote that is 'accepted' or 'rejected' keeps that status and is
\* never deleted, whatever happens next.
C23_AcceptedRejectedTerminal ==
  [][\A q \in DOMAIN quotes :
       quotes[q].status \in {"accepted", "rejected"}
         => q \in DOMAIN quotes' /\ quotes'[q].status = quotes[q].status]_vars

\* C24: a POST /webhooks/stripe without a signature header, or with a
\* signature that does not verify, is answered with an error and changes no
\* payment, quote or case: the handler is not reached.
C24_UnverifiedChangesNothing ==
  [][\A signature \in Signatures \ {"valid"}, i \in IntentIds :
       WebhookUnverified(signature, i)
         => /\ reply'.code = "error"
            /\ UNCHANGED <<payments, quotes, cases>>]_vars

\* an unverified request was refused while a pending payment of a proposed
\* quote on an open case stood ready to be confirmed
C24_Witness ==
  /\ reply = Reply("unverified", TRUE)
  /\ \E i \in Payable :
       /\ i \in DOMAIN payments /\ payments[i].status = "pending"
       /\ intents[i].quoteId \in DOMAIN quotes
       /\ quotes[intents[i].quoteId].status = "proposed"
       /\ cases[intents[i].caseId].status = "open"

\* C25: a failing audit-log insert fails none of quotes.submit,
\* quotes.withdraw, createIntent, cases.updateStatus and files.getSignedUrl:
\* each gives its normal result, a caller entitled to a file gets its URL,
\* and createIntent's Payment row stays and its client secret is handed out.
C25_AuditFailureSwallowed ==
  /\ [](\A handler \in AuditedHandlers : HandlerResult(handler, TRUE) = "ok")
  /\ [](\A c \in DOMAIN cases, u \in Users :
          getSignedDownloadUrl(cases, quotes, c, u, RoleOf(u))
            => getSignedUrl(cases, quotes, c, u, RoleOf(u), TRUE) = "url")
  /\ [][\A r \in Waiting :
          (IntentInsert(r) /\ r.quoteId \in DOMAIN quotes)
            => /\ r.intentId \in DOMAIN payments'
               /\ intents'[r.intentId].secret]_vars

\* createIntent has returned a client secret for a stored pending payment,
\* and the engaged lawyer of a case is entitled to its files
C25_Witness ==
  /\ \E i \in Payable : i \in DOMAIN payments /\ payments[i].status = "pending"
  /\ \E c \in DOMAIN cases, l \in Lawyers :
       getSignedUrl(cases, quotes, c, l, "lawyer", TRUE) = "url"

\* C26: a file is attached to case C only by a request of the client who
\* owns C: an upload by anyone else stores no object for C and creates no
\* file row for C.
C26_OnlyOwnerUploads ==
  [][/\ \A user \in Users, c \in RefCases, stored \in BOOLEAN :
          UploadStore(user, c, stored)
            => \A k \in DOMAIN objects' \ DOMAIN objects :
                 objects'[k] \in DOMAIN cases /\ cases[objects'[k]].clientId = user
     /\ \A r \in Waiting :
          UploadInsert(r)
            => \A k \in DOMAIN files' \ DOMAIN files :
                 cases[files'[k]].clientId = r.userId]_vars

\* the quotes table with the two lawyers exchanged
SwapLawyers(qs) ==
  [q \in DOMAIN qs |->
     [qs[q] EXCEPT !.lawyerId = IF qs[q].lawyerId = "l1" THEN "l2" ELSE "l1"]]

\* a response that carries no lawyerId and is the same whoever the lawyers are
Anonymous(resp, swapped) ==
  /\ \A q \in DOMAIN resp.quotes : "lawyerId" \notin DOMAIN resp.quotes[q]
  /\ resp = swapped

\* C27: as long as no quote on a case is accepted, what quotes.getQuotesForCase
\* and cases.getCaseById answer to the owner holds no lawyerId, and is the
\* same in two states that differ only in which lawyers submitted the quotes.
C27_OwnerSeesNoLawyer ==
  \A c \in DOMAIN cases :
    AcceptedOn(c) = {}
      => /\ Anonymous(getQuotesForCase(cases, quotes, c, cases[c].clientId),
                      getQuotesForCase(cases, SwapLawyers(quotes), c, cases[c].clientId))
         /\ Anonymous(getCaseById(cases, quotes, c, cases[c].clientId),
                      getCaseById(cases, SwapLawyers(quotes), c, cases[c].clientId))

\* quotes.getQuotesForCase alone answers anonymously, in every state
ListingIsAnonymous ==
  \A c \in DOMAIN cases :
    Anonymous(getQuotesForCase(cases, quotes, c, cases[c].clientId),
              getQuotesForCase(cases, SwapLawyers(quotes), c, cases[c].clientId))

\* ------------------------------------------------------- payment status
\* SELECT * FROM payments WHERE case_id = c AND client_id = userId LIMIT 1,
\* without ORDER BY: the database may answer with any matching row.  The set
\* of answers the query can give; "null" stands for payment[0] || null on an
\* empty result.
NoPayment == [status |-> "null"]

getPaymentStatus(ps, c, userId) ==
  LET matching == {i \in DOMAIN ps : ps[i].caseId = c /\ ps[i].clientId = userId}
  IN  IF matching = {} THEN {NoPayment} ELSE {ps[i] : i \in matching}


\* ------------------------------------------------- notifications delivered
\* The webhook route from the moment the owner of an open case holds the
\* secrets of two pending payments, for the proposed quotes of two lawyers
\* or twice for the same quote.  The provider delivers what it has to say
\* about an intent until the route has acknowledged it: a success
\* notification that would still change something is eventually handled
\* and committed.
InitDelivery ==
  /\ cases = (1 :> [clientId |-> "c1", status |-> "open", acceptedQuoteId |-> NoQuote])
  /\ quoteSeq = 2
  /\ quotes = [q \in 1..2 |->
                 [caseId |-> 1, lawyerId |-> IF q = 1 THEN "l1" ELSE "l2",
                  amount |-> StoredAmount(100000), expectedDays |-> 7,
                  note |-> {"terms"}, status |-> "proposed"]]
  /\ \E second \in 1..2 :
       /\ intents = [i \in 1..2 |->
                       [quoteId |-> IF i = 1 THEN 1 ELSE second, caseId |-> 1, secret |-> TRUE]]
       /\ payments = [i \in 1..2 |->
                        [caseId |-> 1, quoteId |-> intents[i].quoteId, clientId |-> "c1",
                         lawyerId |-> quotes[intents[i].quoteId].lawyerId,
                         status |-> "pending"]]
  /\ inflight = EmptyBag
  /\ reply = [type |-> "none", code |-> "none"]
  /\ files = << >>
  /\ objects = << >>

SpecDelivery ==
  /\ InitDelivery /\ [][NextAccept]_vars
  /\ \A i \in IntentIds : WF_vars(WebhookSucceeded(i, 0))

\* the pending payment of intent i pays a proposed quote of an open case
Outstanding(i) ==
  /\ PaysProposedOnOpen(i)
  /\ i \in DOMAIN payments /\ payments[i].status = "pending"

\* intent i has engaged its case: payment succeeded, quote accepted, case
\* engaged with that quote
Settled(i) ==
  /\ i \in DOMAIN payments /\ payments[i].status = "succeeded"
  /\ intents[i].quoteId \in DOMAIN quotes
  /\ quotes[intents[i].quoteId].status = "accepted"
  /\ cases[intents[i].caseId].status = "engaged"
  /\ cases[intents[i].caseId].acceptedQuoteId = intents[i].quoteId

\* C28: with notifications redelivered until acknowledged, a success
\* notification for a pending payment of a proposed quote Q on an open case C
\* leads to the payment 'succeeded', Q 'accepted' and C 'engaged' with
\* acceptedQuoteId = Q, and no duplicate or late notification changes that
\* afterwards.
C28_DeliveryConverges ==
  \A i \in IntentIds : Outstanding(i) ~> []Settled(i)

\* C29: every case has at most one payment with status 'succeeded', however
\* many intents were created for its quotes while it was open and whichever
\* of them are later notified as succeeded.
C29_OneSucceededPaymentPerCase ==
  \A c \in CaseIds :
    Cardinality({i \in DOMAIN payments :
                   payments[i].caseId = c /\ payments[i].status = "succeeded"}) <= 1

\* C30: getPaymentStatus answers only with a payment of the case and the
\* client asked for, and for an engaged case with several payments it
\* answers with the succeeded payment of the accepted quote.
C30_StatusOfEngagedCaseIsSucceeded ==
  \A c \in DOMAIN cases : \A u \in Users :
    \A answer \in getPaymentStatus(payments, c, u) :
      /\ answer # NoPayment => answer.caseId = c /\ answer.clientId = u
      /\ /\ cases[c].status = "engaged"
         /\ u = cases[c].clientId
         /\ Cardinality({i \in DOMAIN payments : payments[i].caseId = c}) > 1
         => /\ answer.status = "succeeded"
            /\ answer.quoteId = cases[c].acceptedQuoteId

\* the part of C30 about whose payments are answered
StatusMatchesArguments ==
  \A c \in CaseIds : \A u \in Users :
    \A answer \in getPaymentStatus(payments, c, u) :
      answer # NoPayment => answer.caseId = c /\ answer.clientId = u

====
